---- MODULE Spec2Model ----
(***************************************************************************)
(* The QCDT price monitor of src/main.py as a state machine.               *)
(*                                                                         *)
(* The bot is one asyncio process.  Every scheduled job and the poll       *)
(* answer handler is a coroutine on the same event loop: a coroutine runs  *)
(* without interruption from one `await` to the next, and other coroutines *)
(* may run while it is suspended in an `await`.  One action of this module *)
(* is therefore one such uninterrupted segment of a handler: the code from *)
(* its entry (or from the `await` it was suspended in) up to and including *)
(* the call it suspends in next, or up to its return.  A trailing `await`  *)
(* of a send after which the handler only returns belongs to the segment   *)
(* that issues it.                                                         *)
(*                                                                         *)
(* `sent` of a step is the channel call (send_message / send_poll) that    *)
(* the segment issues.  safe_send and safe_send_poll swallow every         *)
(* delivery error, so a failed text send differs from a delivered one in   *)
(* nothing the program can observe; a failed poll send returns None and    *)
(* is modelled (PollOutcomes).                                             *)
(*                                                                         *)
(* job_holiday_summary, job_portal_reminder and status_cmd (main.py        *)
(* 123-152, 251-264, 328-336) write no field of `state` and read at most   *)
(* stop_all; they send informational messages only and are no part of the  *)
(* state machine.                                                          *)
(***************************************************************************)
EXTENDS Integers, Sequences, FiniteSets, TLC

VARIABLES
  state,     \* the module-level dict `state` (main.py 55-64)
  now,       \* now_sgt(): minutes since 00:00 of day 0
  phase,     \* "init": process built, post_init not run yet; "running"
  pc,        \* per job coroutine: the await it is suspended in, or "idle"
  handle,    \* per job coroutine: the poll returned by the send_poll it awaits
  nextPoll,  \* the id Telegram gives the next poll it creates
  announced, \* the chat: the markers whose payload message was sent today
  last       \* the handler segment that ran last, its input and what it sent

vars == <<state, now, phase, pc, handle, nextPoll, announced, last>>

----------------------------------------------------------------------------
(* Bounds of the model *)

\* days 0..MaxDay are explored (day 0 is a Friday, day 1 a Saturday)
MaxDay == 1
\* Telegram creates at most MaxPolls polls in one behaviour
MaxPolls == 2

\* two publications may carry the same date: they differ in the rest of the
\* "YYYY-MM-DD HH:MM:SS" string
MarkerVersions == {1, 2}
\* option indexes a poll answer may carry (3 is no option of either poll)
Choices == 0..3

----------------------------------------------------------------------------
(* Configuration (main.py 33-48, 182) *)

NAG_START == 1080        \* dtime(18, 0)
NAG_END == 1260          \* dtime(21, 0)
CHECK_START == 900       \* dtime(15, 0)
CHECK_END == 1260        \* dtime(21, 0)
RESET_TIME == 1          \* dtime(0, 1)
ERROR_COOLDOWN == 60     \* timedelta(minutes=60)

\* Optional values: Python None and a present value
None == <<>>
Some(x) == <<x>>

\* The instants of a day at which the clock is observed: 00:01, 17:00,
\* 17:10, 18:00, 21:00, 21:01.
TimesOfDay == <<1, 1020, 1030, 1080, 1260, 1261>>

CheckTasks == {"check_a", "check_b"}
NagTasks == {"nag_repeat", "nag_kickoff"}
Tasks == CheckTasks \cup NagTasks

----------------------------------------------------------------------------
(* Time helpers (main.py 69-92) *)

\* dt.date() and dt.time() of an instant
DayOf(t) == t \div 1440
TimeOf(t) == t % 1440

\* today_str(): the date of now_sgt(), as the number of its day
today_str(t) == DayOf(t)

\* is_weekday(dt): dt.weekday() < 5; day 0 is a Friday (weekday 4)
is_weekday(t) == ((DayOf(t) + 4) % 7) < 5

within_time_window(now_t, start, end) == start <= now_t /\ now_t <= end

\* should_send_error(): the cooldown has elapsed (`>=`); the strict variant
\* would keep silent at exactly ERROR_COOLDOWN
should_send_error_strict(last_error_at, t) ==
  last_error_at = None \/ (t - last_error_at[1]) > ERROR_COOLDOWN
should_send_error(last_error_at, t) ==
  last_error_at = None \/ (t - last_error_at[1]) >= ERROR_COOLDOWN

----------------------------------------------------------------------------
(* The endpoint's answers (main.py 157-165, 187-190) *)

\* A marker string: well formed ("YYYY-MM-DD HH:MM:SS": wf, with the day
\* its date names and the rest of the string as ver) or not parseable.
\* At instant t the endpoint shows the publication of the day before or
\* one of the publications of the day.
WellFormedMarkers(t) ==
  [wf : {TRUE}, date : {DayOf(t)}, ver : MarkerVersions]
    \cup {[wf |-> TRUE, date |-> DayOf(t) - 1, ver |-> 1]}
BadMarker == [wf |-> FALSE, date |-> -1, ver |-> 1]

\* What `await fetch_payload()` plus payload["data"]["update_time"] gives:
\* an exception (status "error": network, timeout, non-2xx, no JSON, no
\* data.update_time) or a payload.  price_date_ok: data.price_date is a
\* "YYYY-MM-DD" string.
FetchError == [status |-> "error", update_time |-> BadMarker, price_date_ok |-> FALSE]
Payloads(t) ==
  [status : {"ok"}, update_time : WellFormedMarkers(t) \cup {BadMarker},
   price_date_ok : BOOLEAN]
FetchResults(t) == Payloads(t) \cup {FetchError}

\* parse_update_time_sgt(ut).strftime("%Y-%m-%d"): the date the string
\* names; strptime raises on a string that is not in the format
ParseRaises(ut) == ~ut.wf
parse_update_time_sgt(ut) == ut.date

----------------------------------------------------------------------------
(* Messages *)

NoPayload == None
Msg(kind, payload) == [kind |-> kind, payload |-> payload]

PayloadMsg(p) == Msg("payload_json", Some(p))
TagLineMsg == Msg("TAG_LINE", NoPayload)
ActionPoll == Msg("poll3_action", NoPayload)
NagPoll == Msg("poll2_nag", NoPayload)
ErrorMsg == Msg("monitor_error", NoPayload)
ResetMsg == Msg("daily_reset", NoPayload)
OnlineMsg == Msg("bot_online", NoPayload)
AckMsg(p) == Msg("ack", Some(p))
InvestigatingMsg == Msg("marked_investigating", NoPayload)
HolidayMsg == Msg("marked_holiday", NoPayload)
NotedMsg == Msg("noted", NoPayload)
NagHolidayMsg == Msg("nag_holiday_noted", NoPayload)
NagInvestigatingMsg == Msg("nag_investigating_noted", NoPayload)

\* build_ack_message(payload): pretty_date_yyyy_mm_dd(price_date) raises
\* (strptime) when data.price_date is absent or no "YYYY-MM-DD" string
BuildAckRaises(p) == ~p.price_date_ok
build_ack_message(p) == AckMsg(p)

----------------------------------------------------------------------------
(* State *)

\* a reset that keeps last_seen_update_time (the alternative the comment at
\* main.py 286 weighs)
DailyResetState_keep_marker(s) ==
  [last_seen_update_time |-> s.last_seen_update_time,
   update_detected |-> FALSE,
   stop_all |-> FALSE,
   stop_nags |-> FALSE,
   pending_update_payload |-> None,
   pending_update_poll_id |-> None,
   pending_nag_poll_id |-> None,
   last_error_at |-> None]
\* a reset that keeps pending_update_poll_id
DailyResetState_keep_poll_id(s) ==
  [last_seen_update_time |-> None,
   update_detected |-> FALSE,
   stop_all |-> FALSE,
   stop_nags |-> FALSE,
   pending_update_payload |-> None,
   pending_update_poll_id |-> s.pending_update_poll_id,
   pending_nag_poll_id |-> None,
   last_error_at |-> None]
\* the value daily_reset leaves in `state` (main.py 279-287)
DailyResetState(s) ==
  [last_seen_update_time |-> None,
   update_detected |-> FALSE,
   stop_all |-> FALSE,
   stop_nags |-> FALSE,
   pending_update_payload |-> None,
   pending_update_poll_id |-> None,
   pending_nag_poll_id |-> None,
   last_error_at |-> None]

\* the value the module gives `state` when it is loaded (main.py 55-64)
InitialState ==
  [last_seen_update_time |-> None,
   update_detected |-> FALSE,
   stop_all |-> FALSE,
   stop_nags |-> FALSE,
   pending_update_payload |-> None,
   pending_update_poll_id |-> None,
   pending_nag_poll_id |-> None,
   last_error_at |-> None]

\* input: the fetch result, the poll returned or the poll answer the
\* segment worked on (of an answer that matches no pending poll, the poll
\* id), and of daily_reset the state it found
Step(op, at, input, sent) ==
  [op |-> op, at |-> at, input |-> input, sent |-> sent]

Init ==
  /\ state = InitialState
  /\ now = TimesOfDay[1]
  /\ phase = "init"
  /\ pc = [t \in Tasks |-> "idle"]
  /\ handle = [t \in Tasks |-> None]
  /\ nextPoll = 1
  /\ announced = {}
  /\ last = Step("main", "built", None, <<>>)

----------------------------------------------------------------------------
(* Gates and decisions of the handlers *)

\* check_price runs on past its early returns (main.py 172-183); the
\* variant lacks the stop_all test
check_price_gate_no_halt(s, t) ==
  /\ is_weekday(t)
  /\ within_time_window(TimeOf(t), CHECK_START, CHECK_END)
check_price_gate(s, t) ==
  /\ ~s.stop_all
  /\ is_weekday(t)
  /\ within_time_window(TimeOf(t), CHECK_START, CHECK_END)

\* the announcement test (main.py 194); the variants lack the
\* update_detected test, and both it and the changed test
should_announce_ignore_detected(changed, is_today, s) == changed /\ is_today
should_announce_today_only(changed, is_today, s) == is_today
should_announce(changed, is_today, s) == changed /\ is_today /\ ~s.update_detected

\* nag_poll runs on past its early returns (main.py 230-238); the variants
\* lack the update_detected test, and the window test
nag_poll_gate_ignore_detected(s, t) ==
  /\ ~(s.stop_all \/ s.stop_nags)
  /\ is_weekday(t)
  /\ within_time_window(TimeOf(t), NAG_START, NAG_END)
nag_poll_gate_no_window(s, t) ==
  /\ ~(s.stop_all \/ s.stop_nags \/ s.update_detected)
  /\ is_weekday(t)
nag_poll_gate(s, t) ==
  /\ ~(s.stop_all \/ s.stop_nags \/ s.update_detected)
  /\ is_weekday(t)
  /\ within_time_window(TimeOf(t), NAG_START, NAG_END)

\* job_6pm_nag_kickoff calls nag_poll (main.py 271-275)
job_6pm_nag_kickoff_gate(s, t) ==
  /\ ~(s.stop_all \/ s.stop_nags \/ s.update_detected)
  /\ is_weekday(t)

\* the assignments of the announcement branch (main.py 195-196); the
\* variant lacks the assignment of update_detected
AnnounceState_no_flag(s, r) == [s EXCEPT !.pending_update_payload = Some(r)]
AnnounceState(s, r) ==
  [s EXCEPT !.update_detected = TRUE, !.pending_update_payload = Some(r)]

\* `if poll: state[field] = poll.poll.id` (main.py 209-210, 245-246); the
\* variant assigns whatever safe_send_poll returned
PolledState_always(s, field, poll) == [s EXCEPT ![field] = poll]
PolledState(s, field, poll) ==
  IF poll # None THEN [s EXCEPT ![field] = poll] ELSE s

\* send_poll: Telegram creates the poll and returns it, or the send fails
\* and safe_send_poll returns None (main.py 105-118)
PollOutcomes == {"created", "failed"}

\* job coroutines that may still have Telegram create a poll
MayPoll == {t \in Tasks : pc[t] = "fetch"}
\* a job starts only while Telegram has a poll left for it
PollsLeft == nextPoll + Cardinality(MayPoll) <= MaxPolls

----------------------------------------------------------------------------
(* check_price (main.py 170-215) *)

\* entry to the first await (fetch_payload), or an early return
CheckPriceStart(t) ==
  /\ phase = "running"
  /\ pc[t] = "idle"
  /\ PollsLeft
  /\ pc' = [pc EXCEPT ![t] = IF check_price_gate(state, now) THEN "fetch" ELSE "idle"]
  /\ last' = Step("check_price", "start", None, <<>>)
  /\ UNCHANGED <<state, now, phase, handle, nextPoll, announced>>

\* the except block (main.py 212-215); the variant also records the marker
\* of what was fetched, as main.py 192 does on the other path
CheckPriceFailed_stores_marker(t, r) ==
  /\ IF should_send_error(state.last_error_at, now)
       THEN /\ state' = [state EXCEPT !.last_error_at = Some(now),
                                      !.last_seen_update_time = Some(r.update_time)]
            /\ last' = Step("check_price", "fetched", Some(r), <<ErrorMsg>>)
       ELSE /\ state' = [state EXCEPT !.last_seen_update_time = Some(r.update_time)]
            /\ last' = Step("check_price", "fetched", Some(r), <<>>)
  /\ pc' = [pc EXCEPT ![t] = "idle"]
  /\ UNCHANGED <<handle, nextPoll, announced>>
CheckPriceFailed(t, r) ==
  /\ IF should_send_error(state.last_error_at, now)
       THEN /\ state' = [state EXCEPT !.last_error_at = Some(now)]
            /\ last' = Step("check_price", "fetched", Some(r), <<ErrorMsg>>)
       ELSE /\ state' = state
            /\ last' = Step("check_price", "fetched", Some(r), <<>>)
  /\ pc' = [pc EXCEPT ![t] = "idle"]
  /\ UNCHANGED <<handle, nextPoll, announced>>

\* main.py 187-208 for a payload whose marker parses.  On an announcement
\* the three sends are issued in this order; check_price neither reads nor
\* writes `state` between them, so they are one segment, which ends
\* suspended in safe_send_poll.
CheckPriceGotMarker(t, r) ==
  LET ut == r.update_time
      changed == Some(ut) # state.last_seen_update_time
      is_today == parse_update_time_sgt(ut) = today_str(now)
      seen == [state EXCEPT !.last_seen_update_time = Some(ut)]
  IN  IF should_announce(changed, is_today, state)
        THEN /\ state' = AnnounceState(seen, r)
             /\ pc' = [pc EXCEPT ![t] = "await_send_poll"]
             /\ \E outcome \in PollOutcomes :
                  IF outcome = "created"
                    THEN /\ handle' = [handle EXCEPT ![t] = Some(nextPoll)]
                         /\ nextPoll' = nextPoll + 1
                    ELSE /\ handle' = [handle EXCEPT ![t] = None]
                         /\ nextPoll' = nextPoll
             /\ announced' = announced \cup {ut}
             /\ last' = Step("check_price", "fetched", Some(r),
                             <<PayloadMsg(r), TagLineMsg, ActionPoll>>)
        ELSE /\ state' = seen
             /\ pc' = [pc EXCEPT ![t] = "idle"]
             /\ last' = Step("check_price", "fetched", Some(r), <<>>)
             /\ UNCHANGED <<handle, nextPoll, announced>>

\* from the return of fetch_payload to the next await or the return
CheckPriceFetched(t) ==
  /\ pc[t] = "fetch"
  /\ \E r \in FetchResults(now) :
       IF r.status = "error" \/ ParseRaises(r.update_time)
         THEN CheckPriceFailed(t, r)
         ELSE CheckPriceGotMarker(t, r)
  /\ UNCHANGED <<now, phase>>

\* main.py 209-210: safe_send_poll has returned
CheckPricePolled(t) ==
  /\ pc[t] = "await_send_poll"
  /\ t \in CheckTasks
  /\ state' = PolledState(state, "pending_update_poll_id", handle[t])
  /\ pc' = [pc EXCEPT ![t] = "idle"]
  /\ handle' = [handle EXCEPT ![t] = None]
  /\ last' = Step("check_price", "polled", handle[t], <<>>)
  /\ UNCHANGED <<now, phase, nextPoll, announced>>

----------------------------------------------------------------------------
(* nag_poll and job_6pm_nag_kickoff (main.py 229-246, 266-275) *)

\* main.py 240-244: the nag poll is sent
NagPollSend(t, op) ==
  /\ \E outcome \in PollOutcomes :
       IF outcome = "created"
         THEN /\ handle' = [handle EXCEPT ![t] = Some(nextPoll)]
              /\ nextPoll' = nextPoll + 1
         ELSE /\ handle' = [handle EXCEPT ![t] = None]
              /\ nextPoll' = nextPoll
  /\ pc' = [pc EXCEPT ![t] = "await_send_poll"]
  /\ last' = Step(op, "start", None, <<NagPoll>>)

NagPollReturn(t, op) ==
  /\ last' = Step(op, "start", None, <<>>)
  /\ UNCHANGED <<pc, handle, nextPoll>>

\* the repeating job nag_repeat_15m (main.py 382): entry of nag_poll to its
\* await of safe_send_poll, or an early return
NagPollStart ==
  /\ phase = "running"
  /\ pc["nag_repeat"] = "idle"
  /\ PollsLeft
  /\ IF nag_poll_gate(state, now)
       THEN NagPollSend("nag_repeat", "nag_poll")
       ELSE NagPollReturn("nag_repeat", "nag_poll")
  /\ UNCHANGED <<state, now, phase, announced>>

\* the daily job nag_kickoff_1800 (main.py 381): fired at NAG_START.  Which
\* days of the week the scheduler fires it on is the library's reading of
\* `days`; the handler tests the day itself (main.py 273), so the job may
\* fire on any day here.
Job6pmNagKickoffStart ==
  /\ phase = "running"
  /\ pc["nag_kickoff"] = "idle"
  /\ TimeOf(now) = NAG_START
  /\ PollsLeft
  /\ IF job_6pm_nag_kickoff_gate(state, now) /\ nag_poll_gate(state, now)
       THEN NagPollSend("nag_kickoff", "job_6pm_nag_kickoff")
       ELSE NagPollReturn("nag_kickoff", "job_6pm_nag_kickoff")
  /\ UNCHANGED <<state, now, phase, announced>>

\* main.py 245-246: safe_send_poll has returned
NagPollPolled(t) ==
  /\ pc[t] = "await_send_poll"
  /\ t \in NagTasks
  /\ state' = PolledState(state, "pending_nag_poll_id", handle[t])
  /\ pc' = [pc EXCEPT ![t] = "idle"]
  /\ handle' = [handle EXCEPT ![t] = None]
  /\ last' = Step("nag_poll", "polled", handle[t], <<>>)
  /\ UNCHANGED <<now, phase, nextPoll, announced>>

----------------------------------------------------------------------------
(* on_poll_answer (main.py 293-323) *)

\* a poll answer: the poll's id and the option ids chosen (none when the
\* vote is retracted).  Poll 0 is a poll this bot never sent.
PollAnswers ==
  [poll_id : 0..(nextPoll - 1), option_ids : {<<>>} \cup {<<c>> : c \in Choices}]

\* `poll_id == state[...]` (main.py 302, 317): the answer is to the stored
\* poll; the variant takes any answer for an answer to a stored poll
MatchesPoll_any(poll_id, pending) == pending # None
MatchesPoll(poll_id, pending) == Some(poll_id) = pending

\* the state an answer to the update poll leaves (main.py 303)
UpdateAnswerState(s, choice) == [s EXCEPT !.stop_all = TRUE]

\* what an answer to the update poll sends (main.py 305-313); no message
\* when build_ack_message raises
UpdateAnswerSent(s, choice) ==
  LET payload == s.pending_update_payload
  IN  IF choice = 0 /\ payload # None
        THEN IF BuildAckRaises(payload[1]) THEN <<>>
             ELSE <<build_ack_message(payload[1])>>
      ELSE IF choice = 1 THEN <<InvestigatingMsg>>
      ELSE IF choice = 2 THEN <<HolidayMsg>>
      ELSE <<NotedMsg>>

\* the state an answer to the nag poll leaves (main.py 319-323); the
\* variants assign stop_nags on every answer: (choice = 1), or True
NagAnswerState_assigns(s, choice) == [s EXCEPT !.stop_nags = (choice = 1)]
NagAnswerState_any(s, choice) == [s EXCEPT !.stop_nags = TRUE]
NagAnswerState(s, choice) ==
  IF choice = 1 THEN [s EXCEPT !.stop_nags = TRUE] ELSE s
NagAnswerSent(s, choice) ==
  IF choice = 1 THEN <<NagHolidayMsg>> ELSE <<NagInvestigatingMsg>>

OnPollAnswer ==
  /\ phase = "running"
  /\ \E pa \in PollAnswers :
       IF pa.option_ids = <<>>
         THEN /\ state' = state
              /\ last' = Step("on_poll_answer", "ignored", None, <<>>)
       ELSE IF MatchesPoll(pa.poll_id, state.pending_update_poll_id)
         THEN /\ state' = UpdateAnswerState(state, pa.option_ids[1])
              /\ last' = Step("on_poll_answer", "update_poll", Some(pa),
                              UpdateAnswerSent(state, pa.option_ids[1]))
       ELSE IF MatchesPoll(pa.poll_id, state.pending_nag_poll_id)
         THEN /\ state' = NagAnswerState(state, pa.option_ids[1])
              /\ last' = Step("on_poll_answer", "nag_poll", Some(pa),
                              NagAnswerSent(state, pa.option_ids[1]))
       ELSE /\ state' = state
            /\ last' = Step("on_poll_answer", "no_match", Some(pa.poll_id), <<>>)
  /\ UNCHANGED <<now, phase, pc, handle, nextPoll, announced>>

----------------------------------------------------------------------------
(* daily_reset, the process and the clock *)

\* the daily job daily_reset (main.py 277-288, 374): fired at 00:01
DailyReset ==
  /\ phase = "running"
  /\ TimeOf(now) = RESET_TIME
  /\ state' = DailyResetState(state)
  /\ last' = Step("daily_reset", "reset", Some(state), <<ResetMsg>>)
  /\ UNCHANGED <<now, phase, pc, handle, nextPoll, announced>>

\* what post_init sends (main.py 341-350)
PostInitSent == <<OnlineMsg>>

\* post_init (main.py 341-350), run by run_polling before any job or update
PostInit ==
  /\ phase = "init"
  /\ phase' = "running"
  /\ last' = Step("post_init", "start", None, PostInitSent)
  /\ UNCHANGED <<state, now, pc, handle, nextPoll, announced>>

\* The process is stopped and started again: the module is loaded anew
\* (main.py 55-64), every coroutine of the old process is gone.  The polls
\* Telegram created and the messages in the chat stay.
Restart ==
  /\ phase = "running"
  /\ state' = InitialState
  /\ phase' = "init"
  /\ pc' = [t \in Tasks |-> "idle"]
  /\ handle' = [t \in Tasks |-> None]
  /\ last' = Step("main", "built", None, <<>>)
  /\ UNCHANGED <<now, nextPoll, announced>>

\* the next instant of TimesOfDay after t
NextInstant(t) ==
  LET later == {i \in 1..Len(TimesOfDay) : TimesOfDay[i] > TimeOf(t)}
  IN  IF later = {}
        THEN (DayOf(t) + 1) * 1440 + TimesOfDay[1]
        ELSE DayOf(t) * 1440 + TimesOfDay[CHOOSE i \in later : \A j \in later : i <= j]

\* Time passes.  A handler is suspended for seconds at most (the fetch has
\* HTTP_TIMEOUT_SECONDS, main.py 47), the instants are minutes apart: no
\* coroutine is suspended across two instants.  The scheduler runs
\* daily_reset at 00:01 of every day (main.py 374): the clock leaves 00:01
\* with the state reset (no handler changes a reset state at 00:01).
Tick ==
  /\ \A t \in Tasks : pc[t] = "idle"
  /\ DayOf(NextInstant(now)) <= MaxDay
  /\ TimeOf(now) = RESET_TIME => state = DailyResetState(state)
  /\ now' = NextInstant(now)
  /\ announced' = IF DayOf(NextInstant(now)) = DayOf(now) THEN announced ELSE {}
  /\ last' = Step("clock", "tick", None, <<>>)
  /\ UNCHANGED <<state, phase, pc, handle, nextPoll>>

----------------------------------------------------------------------------

Next ==
  \/ \E t \in CheckTasks : CheckPriceStart(t)
  \/ \E t \in CheckTasks : CheckPriceFetched(t)
  \/ \E t \in CheckTasks : CheckPricePolled(t)
  \/ NagPollStart
  \/ Job6pmNagKickoffStart
  \/ \E t \in NagTasks : NagPollPolled(t)
  \/ OnPollAnswer
  \/ DailyReset
  \/ PostInit
  \/ Tick

\* one run of the process, started at any instant
Spec == Init /\ [][Next]_vars

\* the process may be stopped and started again
NextWithRestart ==
  \/ Next
  \/ Restart

SpecWithRestart == Init /\ [][NextWithRestart]_vars

----------------------------------------------------------------------------
(* Reading a step *)

\* the job coroutine t has just run the segment that follows its fetch
Fetched(t) ==
  /\ pc[t] = "fetch"
  /\ pc'[t] # "fetch"
  /\ last'.op = "check_price"
  /\ last'.at = "fetched"

\* an invocation of a job has just started (and, with pc unchanged, returned)
Started(ops) == last'.at = "start" /\ last'.op \in ops

InNagWindow(t) == NAG_START <= TimeOf(t) /\ TimeOf(t) <= NAG_END
InCheckWindow(t) == CHECK_START <= TimeOf(t) /\ TimeOf(t) <= CHECK_END
IsBusinessDay(t) == (DayOf(t) + 4) % 7 \in 0..4

----------------------------------------------------------------------------
(* C1 *)

\* C1: once stop_all is true, an invocation of check_price, nag_poll or
\* job_6pm_nag_kickoff that starts returns at once: it sends nothing, is
\* suspended nowhere (so nothing the endpoint returns reaches it) and leaves
\* every state field as it was, at every instant.
C1_HaltedInvocationsDoNothing ==
  [][(state.stop_all /\ Started({"check_price", "nag_poll", "job_6pm_nag_kickoff"}))
       => /\ last'.sent = <<>>
          /\ state' = state
          /\ pc' = pc
          /\ nextPoll' = nextPoll]_vars

\* a check_price invocation has started with stop_all set, on a business
\* day inside the check window
C1_Witness ==
  /\ state.stop_all
  /\ last.op = "check_price"
  /\ last.at = "start"
  /\ IsBusinessDay(now)
  /\ InCheckWindow(now)

----------------------------------------------------------------------------
(* C2 *)

\* C2: the segment of check_price that follows a successful fetch (it was
\* entered on a business day inside 15:00-21:00 with stop_all false)
\* announces iff the marker differs from last_seen_update_time, is dated
\* today and update_detected was false: it then sets update_detected, stores
\* the payload and issues the payload message, the tag line and the
\* 3-option poll in this order; otherwise it sends nothing and leaves
\* update_detected, the stored payload and the stored poll id alone.
C2_AnnounceIff ==
  [][\A t \in CheckTasks :
       (Fetched(t) /\ last'.input[1].status = "ok" /\ last'.input[1].update_time.wf)
         => LET r == last'.input[1]
                differs == Some(r.update_time) # state.last_seen_update_time
                dated_today == r.update_time.date = DayOf(now)
            IN  /\ IsBusinessDay(now) /\ InCheckWindow(now)
                /\ IF differs /\ dated_today /\ ~state.update_detected
                     THEN /\ state'.update_detected
                          /\ state'.pending_update_payload = Some(r)
                          /\ last'.sent = <<PayloadMsg(r), TagLineMsg, ActionPoll>>
                          /\ pc'[t] = "await_send_poll"
                     ELSE /\ last'.sent = <<>>
                          /\ pc'[t] = "idle"
                          /\ nextPoll' = nextPoll
                          /\ state'.update_detected = state.update_detected
                          /\ state'.pending_update_payload = state.pending_update_payload
                          /\ state'.pending_update_poll_id = state.pending_update_poll_id]_vars

\* an announcement has been made and its poll id stored
C2_Witness ==
  /\ last.op = "check_price"
  /\ last.at = "polled"
  /\ last.input # None
  /\ state.update_detected
  /\ state.pending_update_poll_id = last.input
  /\ state.pending_update_payload # None
  /\ state.last_seen_update_time = Some(state.pending_update_payload[1].update_time)

----------------------------------------------------------------------------
(* C3 *)

\* C3: with update_detected true, a check_price that fetches a marker equal
\* to last_seen_update_time sends nothing, opens no poll and leaves
\* update_detected, pending_update_payload and pending_update_poll_id (in
\* fact the whole state) unchanged; so any number of them do.
C3_UnchangedMarkerIdempotent ==
  [][\A t \in CheckTasks :
       (/\ Fetched(t)
        /\ state.update_detected
        /\ last'.input[1].status = "ok"
        /\ Some(last'.input[1].update_time) = state.last_seen_update_time)
         => /\ last'.sent = <<>>
            /\ pc'[t] = "idle"
            /\ nextPoll' = nextPoll
            /\ state'.update_detected = state.update_detected
            /\ state'.pending_update_payload = state.pending_update_payload
            /\ state'.pending_update_poll_id = state.pending_update_poll_id
            /\ state' = state]_vars

\* after the announcement, a check has fetched the announced marker again
C3_Witness ==
  /\ last.op = "check_price"
  /\ last.at = "fetched"
  /\ last.sent = <<>>
  /\ last.input[1].status = "ok"
  /\ state.update_detected
  /\ state.pending_update_poll_id # None
  /\ state.pending_update_payload # None
  /\ last.input[1].update_time = state.pending_update_payload[1].update_time
  /\ state.last_seen_update_time = Some(last.input[1].update_time)

----------------------------------------------------------------------------
(* C4 *)

Present(x) == x # None

\* C4: in one run of the process no step of check_price, nag_poll,
\* job_6pm_nag_kickoff, on_poll_answer or post_init (no step at all other
\* than daily_reset) takes update_detected, stop_all or stop_nags from true
\* to false or a pending poll id from present to absent.
C4_FlagsMonotonic ==
  [][last'.op # "daily_reset"
       => /\ state.update_detected => state'.update_detected
          /\ state.stop_all => state'.stop_all
          /\ state.stop_nags => state'.stop_nags
          /\ Present(state.pending_update_poll_id) => Present(state'.pending_update_poll_id)
          /\ Present(state.pending_nag_poll_id) => Present(state'.pending_nag_poll_id)]_vars

\* all five are set and an answer to the nag poll with another index than 1
\* has just been handled
C4_Witness ==
  /\ state.update_detected
  /\ state.stop_all
  /\ state.stop_nags
  /\ Present(state.pending_update_poll_id)
  /\ Present(state.pending_nag_poll_id)
  /\ last.op = "on_poll_answer"
  /\ last.at = "nag_poll"
  /\ last.input[1].option_ids # <<1>>

----------------------------------------------------------------------------
(* C5 *)

\* C5: after daily_reset, whatever state it found, every one of the eight
\* fields has its zero value, and the reset confirmation has been sent.
C5_DailyResetZeroes ==
  last.op = "daily_reset"
    => /\ state.last_seen_update_time = None
       /\ state.pending_update_payload = None
       /\ state.pending_update_poll_id = None
       /\ state.pending_nag_poll_id = None
       /\ state.last_error_at = None
       /\ state.update_detected = FALSE
       /\ state.stop_all = FALSE
       /\ state.stop_nags = FALSE
       /\ DOMAIN state = {"last_seen_update_time", "pending_update_payload",
                          "pending_update_poll_id", "pending_nag_poll_id",
                          "last_error_at", "update_detected", "stop_all", "stop_nags"}
       /\ last.sent = <<ResetMsg>>

\* daily_reset has run on a state in which every field was set
C5_Witness ==
  /\ last.op = "daily_reset"
  /\ LET found == last.input[1]
     IN  /\ found.update_detected /\ found.stop_all /\ found.stop_nags
         /\ Present(found.last_seen_update_time)
         /\ Present(found.pending_update_payload)
         /\ Present(found.pending_update_poll_id)
         /\ Present(found.pending_nag_poll_id)
         /\ Present(found.last_error_at)
  /\ state.last_seen_update_time = None

----------------------------------------------------------------------------
(* C6 *)

\* C6: when the process starts inside the nag window on a business day
\* (stop_all, stop_nags and update_detected are then false), post_init sends
\* the online notice and then opens one 2-option nag poll, before any
\* scheduled job has run.
C6_RestartResume ==
  (/\ last.op = "post_init"
   /\ IsBusinessDay(now)
   /\ InNagWindow(now)
   /\ ~state.stop_all /\ ~state.stop_nags /\ ~state.update_detected)
    => /\ Len(last.sent) = 2
       /\ last.sent[1] = OnlineMsg
       /\ last.sent[2] = NagPoll

----------------------------------------------------------------------------
(* C7 *)

\* check_price has just announced a marker
Announced(t) == Fetched(t) /\ last'.sent # <<>> /\ last'.sent[1].kind = "payload_json"

\* C7: a today-dated marker whose payload message is already in today's
\* chat is not announced a second time, also when the process was stopped
\* and started again since it was announced.
C7_NoDuplicateAfterRestart ==
  [][\A t \in CheckTasks :
       Announced(t) => last'.input[1].update_time \notin announced]_vars

----------------------------------------------------------------------------
(* C8 *)

\* C8: a failing check_price (the fetch raises, or the marker does not
\* parse) sends the error message and sets last_error_at to now iff
\* last_error_at is absent or at least ERROR_COOLDOWN minutes old; otherwise
\* it sends nothing and leaves last_error_at alone.  last_error_at is only
\* ever set to the instant of an error message, so in one run two error
\* messages with no daily_reset between them are at least 60 minutes apart.
C8_ErrorCooldown ==
  [][/\ \A t \in CheckTasks :
          (Fetched(t) /\ (last'.input[1].status = "error" \/ ~last'.input[1].update_time.wf))
            => /\ pc'[t] = "idle"
               /\ IF state.last_error_at = None \/ now - state.last_error_at[1] >= 60
                    THEN /\ last'.sent = <<ErrorMsg>>
                         /\ state' = [state EXCEPT !.last_error_at = Some(now)]
                    ELSE /\ last'.sent = <<>>
                         /\ state' = state
     /\ state'.last_error_at # state.last_error_at
          => \/ last'.op = "daily_reset" /\ state'.last_error_at = None
             \/ last'.sent = <<ErrorMsg>> /\ state'.last_error_at = Some(now)
     /\ (last'.sent = <<ErrorMsg>> /\ state.last_error_at # None)
          => now - state.last_error_at[1] >= 60]_vars

\* a second failure ten minutes after an error message, and nothing sent
C8_Witness ==
  /\ last.op = "check_price"
  /\ last.at = "fetched"
  /\ last.input[1].status = "error"
  /\ last.sent = <<>>
  /\ state.last_error_at # None
  /\ now - state.last_error_at[1] = 10

----------------------------------------------------------------------------
(* C9 *)

\* the poll an answer step was about
AnswerPollId(step) ==
  IF step.at = "no_match" THEN step.input[1] ELSE step.input[1].poll_id

\* C9: an answer whose poll id equals pending_update_poll_id sets stop_all
\* whatever the option index, and sends exactly one message: index 0 the
\* acknowledgment built from the stored payload, index 1 the investigating
\* line, index 2 the holiday line, any other index the generic line.
C9_UpdateAnswer ==
  [][(/\ last'.op = "on_poll_answer"
      /\ last'.at # "ignored"
      /\ Some(AnswerPollId(last')) = state.pending_update_poll_id)
       => /\ last'.at = "update_poll"
          /\ state'.stop_all
          /\ LET choice == last'.input[1].option_ids[1]
             IN  last'.sent =
                   IF choice = 0 THEN <<AckMsg(state.pending_update_payload[1])>>
                   ELSE IF choice = 1 THEN <<InvestigatingMsg>>
                   ELSE IF choice = 2 THEN <<HolidayMsg>>
                   ELSE <<NotedMsg>>]_vars

----------------------------------------------------------------------------
(* C10 *)

NagGated(s, t) ==
  \/ s.stop_all \/ s.stop_nags \/ s.update_detected
  \/ ~IsBusinessDay(t)
  \/ ~InNagWindow(t)

\* C10: a nag firing (nag_poll or job_6pm_nag_kickoff) sends nothing and
\* changes no state if stop_all, stop_nags or update_detected is true, the
\* day is no business day or the time is outside [NAG_START, NAG_END];
\* otherwise it sends one 2-option nag poll, and when safe_send_poll returns
\* the poll, pending_nag_poll_id becomes that poll's id, whatever it held.
C10_NagGating ==
  [][/\ Started({"nag_poll", "job_6pm_nag_kickoff"})
          => IF NagGated(state, now)
               THEN last'.sent = <<>> /\ state' = state /\ pc' = pc /\ nextPoll' = nextPoll
               ELSE /\ last'.sent = <<NagPoll>>
                    /\ state' = state
                    /\ \E t \in NagTasks : pc[t] = "idle" /\ pc'[t] = "await_send_poll"
     /\ \A t \in NagTasks :
          (pc[t] = "await_send_poll" /\ pc'[t] = "idle" /\ handle[t] # None)
            => state' = [state EXCEPT !.pending_nag_poll_id = handle[t]]]_vars

\* two nag firings with no answer in between have opened polls 1 and 2, and
\* only the id of the second is stored
C10_Witness ==
  /\ last.op = "nag_poll"
  /\ last.at = "polled"
  /\ last.input = Some(2)
  /\ state.pending_nag_poll_id = Some(2)
  /\ announced = {}
  /\ ~state.update_detected /\ ~state.stop_nags /\ ~state.stop_all
  /\ \A t \in Tasks : pc[t] = "idle"

----------------------------------------------------------------------------
(* C11 *)

\* the step handles an answer (with an option) to the poll whose id `pending`
\* holds
AnswerTo(pending) ==
  /\ last'.op = "on_poll_answer"
  /\ last'.at # "ignored"
  /\ Some(AnswerPollId(last')) = pending

\* C11: an answer to the poll of pending_nag_poll_id sets stop_nags iff its
\* option index is 1 and leaves stop_nags as it was otherwise; stop_all and
\* update_detected are unchanged.  A nag firing that follows an answer with
\* another index, inside the nag window of a business day with stop_all and
\* update_detected false, opens a nag poll (unless an earlier answer with
\* index 1 had halted nagging already).
C11_NagAnswer ==
  [][/\ AnswerTo(state.pending_nag_poll_id)
          => LET choice == last'.input[1].option_ids[1]
             IN  /\ last'.at = "nag_poll"
                 /\ state'.stop_nags = (IF choice = 1 THEN TRUE ELSE state.stop_nags)
                 /\ state'.stop_all = state.stop_all
                 /\ state'.update_detected = state.update_detected
     /\ (/\ last.op = "on_poll_answer"
         /\ last.at = "nag_poll"
         /\ last.input[1].option_ids # <<1>>
         /\ Started({"nag_poll", "job_6pm_nag_kickoff"})
         /\ ~state.stop_all /\ ~state.update_detected
         /\ IsBusinessDay(now) /\ InNagWindow(now))
          => last'.sent = (IF state.stop_nags THEN <<>> ELSE <<NagPoll>>)]_vars

\* an answer with index 0 to the pending nag poll has been handled inside
\* the nag window: nagging is not halted
C11_Witness ==
  /\ last.op = "on_poll_answer"
  /\ last.at = "nag_poll"
  /\ last.input[1].option_ids = <<0>>
  /\ Some(last.input[1].poll_id) = state.pending_nag_poll_id
  /\ ~state.stop_nags /\ ~state.stop_all /\ ~state.update_detected
  /\ IsBusinessDay(now) /\ InNagWindow(now)

----------------------------------------------------------------------------
(* C12 *)

\* C12: once an answer with index 1 to the pending nag poll has set
\* stop_nags, a further answer with index 1 to that poll changes no state
\* field and sends no message.
C12_SecondHolidayAnswerSilent ==
  [][(/\ state.stop_nags
      /\ AnswerTo(state.pending_nag_poll_id)
      /\ last'.input[1].option_ids = <<1>>)
       => /\ state' = state
          /\ last'.sent = <<>>]_vars

----------------------------------------------------------------------------
(* C13 *)

\* C13: an answer whose poll id equals neither pending_update_poll_id nor
\* pending_nag_poll_id (an answer to a nag poll whose id a later nag firing
\* has overwritten, among others) changes no state field and sends no
\* message, whatever its option index; so does an answer with no option.
C13_StaleAnswerDropped ==
  [][last'.op = "on_poll_answer"
       => /\ (/\ last'.at # "ignored"
              /\ Some(AnswerPollId(last')) # state.pending_update_poll_id
              /\ Some(AnswerPollId(last')) # state.pending_nag_poll_id)
               => /\ last'.at = "no_match"
                  /\ state' = state
                  /\ last'.sent = <<>>
          /\ last'.at \in {"ignored", "no_match"}
               => /\ state' = state
                  /\ last'.sent = <<>>
                  /\ UNCHANGED <<pc, handle, nextPoll, now, phase>>]_vars

\* nag poll 2 has overwritten nag poll 1 in pending_nag_poll_id, and an
\* answer to poll 1 has been dropped
C13_Witness ==
  /\ last.op = "on_poll_answer"
  /\ last.at = "no_match"
  /\ last.input = Some(1)
  /\ state.pending_nag_poll_id = Some(2)
  /\ state.pending_update_poll_id = None
  /\ ~state.stop_nags /\ ~state.stop_all

----------------------------------------------------------------------------
(* C14 *)

\* safe_send_poll has just returned None to the job coroutine t
PollSendFailed(t) ==
  /\ pc[t] = "await_send_poll"
  /\ pc'[t] = "idle"
  /\ handle[t] = None

\* C14 as stated: after an announcement whose poll send failed,
\* pending_update_poll_id is absent while update_detected is true, and after
\* a nag firing whose poll send failed, pending_nag_poll_id is absent.
C14_FailedPollSendLeavesNoId ==
  [][\A t \in Tasks :
       PollSendFailed(t)
         => /\ t \in CheckTasks
                 => state'.pending_update_poll_id = None /\ state'.update_detected
            /\ t \in NagTasks
                 => state'.pending_nag_poll_id = None]_vars

\* C14: a failed poll send stores nothing.  After an announcement whose poll
\* send failed, pending_update_poll_id is absent while update_detected is
\* true; after a nag firing whose poll send failed, every state field,
\* pending_nag_poll_id among them, is what it was before: absent if no nag
\* poll was stored since the last reset, the id of the earlier nag poll
\* otherwise.
C14_FailedPollSendStoresNothing ==
  [][\A t \in Tasks :
       PollSendFailed(t)
         => /\ state' = state
            /\ last'.sent = <<>>
            /\ t \in CheckTasks
                 => state'.pending_update_poll_id = None /\ state'.update_detected]_vars

\* a nag firing's poll send has failed while the id of an earlier nag poll
\* is stored
C14_Witness ==
  /\ last.op = "nag_poll"
  /\ last.at = "polled"
  /\ last.input = None
  /\ state.pending_nag_poll_id = Some(1)

----------------------------------------------------------------------------
(* C15 *)

\* C15: a check_price that has passed its gates and obtained a payload ends
\* with last_seen_update_time equal to the payload's marker, whether or not
\* it announces, whatever the marker's date, and for every marker string.
C15_LastSeenAlwaysUpdated ==
  [][\A t \in CheckTasks :
       (Fetched(t) /\ last'.input[1].status = "ok")
         => state'.last_seen_update_time = Some(last'.input[1].update_time)]_vars

----------------------------------------------------------------------------
(* C16 *)

\* check_price t has announced and is suspended in safe_send_poll: the poll
\* is sent, update_detected is true, pending_update_poll_id not yet stored
AnnouncementInProgress(t) == t \in CheckTasks /\ pc[t] = "await_send_poll"

\* C16: every handler runs to completion before another one observes the
\* state.  In particular no step of another handler runs between a
\* check_price setting update_detected and the same invocation storing
\* pending_update_poll_id: the step that follows the announcement is the
\* return of safe_send_poll to that invocation.
C16_NoPartialVisibility ==
  [][\A t \in CheckTasks :
       AnnouncementInProgress(t)
         => /\ last'.op = "check_price"
            /\ last'.at = "polled"
            /\ pc'[t] = "idle"]_vars

----------------------------------------------------------------------------
(* C17 *)

\* a change is detected and not acknowledged, nagging is not halted, and it
\* is a business day inside the nag window
DetectedUnacknowledged(s, t) ==
  /\ s.update_detected
  /\ ~s.stop_all /\ ~s.stop_nags
  /\ IsBusinessDay(t) /\ InNagWindow(t)

\* C17 as stated: a nag firing in such a state opens a nag poll, as it does
\* when no change has been detected.
C17_NagWhileUnacknowledged ==
  [][(Started({"nag_poll", "job_6pm_nag_kickoff"}) /\ DetectedUnacknowledged(state, now))
       => last'.sent = <<NagPoll>>]_vars

\* C17: on a business day inside the nag window with stop_all and stop_nags
\* false, a nag firing opens a nag poll iff no change has been detected; once
\* update_detected is true it sends nothing and changes nothing, whether or
\* not the announcement poll has been answered.
C17_NagOnlyWhileUndetected ==
  [][(/\ Started({"nag_poll", "job_6pm_nag_kickoff"})
      /\ ~state.stop_all /\ ~state.stop_nags
      /\ IsBusinessDay(now) /\ InNagWindow(now))
       => IF state.update_detected
            THEN last'.sent = <<>> /\ state' = state /\ pc' = pc /\ nextPoll' = nextPoll
            ELSE last'.sent = <<NagPoll>>]_vars

\* a nag firing has returned without a poll while the announcement poll is
\* stored and unanswered
C17_Witness ==
  /\ last.op \in {"nag_poll", "job_6pm_nag_kickoff"}
  /\ last.at = "start"
  /\ last.sent = <<>>
  /\ DetectedUnacknowledged(state, now)
  /\ state.pending_update_poll_id # None
  /\ \A t \in Tasks : pc[t] = "idle"

----------------------------------------------------------------------------
(* C18 *)

\* C18: a check_price whose fetch fails returns (it is suspended nowhere and
\* the process runs on), changes no state field other than last_error_at,
\* sends at most one message and opens no poll; the check_price that starts
\* next goes to its fetch exactly when its gates let it.
C18_FetchFailureLocal ==
  [][/\ \A t \in CheckTasks :
          (Fetched(t) /\ last'.input[1].status = "error")
            => /\ state' = [state EXCEPT !.last_error_at = state'.last_error_at]
               /\ Len(last'.sent) <= 1
               /\ pc'[t] = "idle"
               /\ phase' = "running"
               /\ handle' = handle
               /\ nextPoll' = nextPoll
     /\ (/\ last.op = "check_price" /\ last.at = "fetched"
         /\ last.input[1].status = "error"
         /\ Started({"check_price"}))
          => LET runs == ~state.stop_all /\ IsBusinessDay(now) /\ InCheckWindow(now)
             IN  /\ runs => \E t \in CheckTasks : pc[t] = "idle" /\ pc'[t] = "fetch"
                 /\ ~runs => pc' = pc]_vars

\* the fetch of a check_price has failed after the day's announcement: the
\* error message is sent, the marker, the flag, the payload and the poll id
\* are still there
C18_Witness ==
  /\ last.op = "check_price"
  /\ last.at = "fetched"
  /\ last.input[1].status = "error"
  /\ last.sent = <<ErrorMsg>>
  /\ state.last_error_at = Some(now)
  /\ state.update_detected
  /\ state.last_seen_update_time # None
  /\ state.pending_update_payload # None
  /\ state.pending_update_poll_id # None

----------------------------------------------------------------------------
(* C19 *)

\* C19: in every reachable state pending_update_poll_id is present only if
\* update_detected is true and pending_update_payload is present, and
\* stop_all is true only if update_detected is true; an answer with index 0
\* to the announcement poll has found a stored payload.
C19_PendingPollImpliesDetected ==
  /\ state.pending_update_poll_id # None
       => state.update_detected /\ state.pending_update_payload # None
  /\ state.stop_all => state.update_detected
  /\ (/\ last.op = "on_poll_answer"
      /\ last.at = "update_poll"
      /\ last.input[1].option_ids = <<0>>)
       => state.pending_update_payload # None

\* the announcement poll is stored and an answer to it with index 0 has
\* halted monitoring
C19_Witness ==
  /\ state.pending_update_poll_id # None
  /\ state.stop_all
  /\ state.update_detected
  /\ state.pending_update_payload # None
  /\ last.op = "on_poll_answer"
  /\ last.at = "update_poll"
  /\ last.input[1].option_ids = <<0>>
  /\ Some(last.input[1].poll_id) = state.pending_update_poll_id

----------------------------------------------------------------------------
(* C20 *)

\* C20: in one run of the process at most one announcement is made between
\* two daily resets, whatever markers the endpoint shows and however
\* check_price invocations overlap: a check_price that announces (one payload
\* message, the tag line, one 3-option poll) finds that nothing was
\* announced since the reset.  (`announced` is emptied when the day changes,
\* at the 00:01 of daily_reset, an instant at which nothing is announced.)
C20_OneAnnouncementPerDay ==
  [][\A t \in CheckTasks :
       Announced(t)
         => /\ announced = {}
            /\ ~state.update_detected
            /\ last'.sent = <<PayloadMsg(last'.input[1]), TagLineMsg, ActionPoll>>]_vars

\* while the check_price that announced is suspended in its poll send, an
\* overlapping check_price has fetched another marker dated today and has
\* sent nothing
C20_Witness ==
  /\ last.op = "check_price"
  /\ last.at = "fetched"
  /\ last.sent = <<>>
  /\ last.input[1].status = "ok"
  /\ last.input[1].update_time.wf
  /\ last.input[1].update_time.date = DayOf(now)
  /\ announced # {}
  /\ last.input[1].update_time \notin announced
  /\ \E t \in CheckTasks : pc[t] = "await_send_poll"

====
